---------------------------- MODULE Spec2Model ----------------------------
(***************************************************************************)
(* A model of scripts/harvest-skill-metadata/harvest.py: the README        *)
(* sectioning, fuzzy section lookup, example / credit / icon extraction,   *)
(* the record assembler generate_summary and the batch driver main.        *)
(*                                                                         *)
(* A Python str is a sequence of one-character strings.  An OrderedDict    *)
(* is a sequence of records [key, body] with pairwise different keys, in   *)
(* insertion order.  None is the model value None.                         *)
(***************************************************************************)
EXTENDS Integers, Sequences, FiniteSets, TLC

VARIABLES
  \* extract_sections: its argument, the lines read so far and its locals
  readme_content, line_no, last_section, sections, es_pc,
  \* find_section: its arguments, the titles compared so far, the greatest
  fs_name, fs_sections, fs_min_conf, fs_no, fs_best, fs_result, fs_pc,
  \* parse_example: its argument and the local it rewrites
  pe_input, pe_example, pe_pc,
  \* make_credits: its argument, the lines read so far and its result
  mc_input, mc_no, mc_result, mc_pc,
  \* find_examples: its argument, the string searched, the scan and its matches
  fe_sections, fe_string, fe_pos, fe_found, fe_pc,
  \* generate_summary: its arguments and locals
  gs_github, gs_skill_entry, gs_repo_url, gs_sections, gs_title, gs_record, gs_pc,
  \* main: the skill list, what GitHub answers for each skill, and the loop
  skills, github, skill_no, summaries, output, main_pc

vars_sections == <<readme_content, line_no, last_section, sections, es_pc>>

vars_find == <<fs_name, fs_sections, fs_min_conf, fs_no, fs_best, fs_result, fs_pc>>

vars_example == <<pe_input, pe_example, pe_pc>>

vars_credits == <<mc_input, mc_no, mc_result, mc_pc>>

vars_examples == <<fe_sections, fe_string, fe_pos, fe_found, fe_pc>>

vars_summary == <<gs_github, gs_skill_entry, gs_repo_url, gs_sections, gs_title, gs_record, gs_pc>>

vars_main == <<skills, github, skill_no, summaries, output, main_pc>>

vars == <<vars_sections, vars_find, vars_example, vars_credits, vars_examples,
          vars_summary, vars_main>>

\* None, a value no str equals
None == <<"None">>

\* bool(x) of an Optional[str]
truthy(x) == x # None /\ x # <<>>

\* the grave accent, which the module's lexer does not take inside a string
Backtick == "grave"

\* the str literals of the functions: the section names of lines 217-218 and
\* 398-413, the default platform of line 412, the tag and the attributes of
\* lines 237, 259, 271 and 273, the prefix of line 278, the hosts of line 286
Literals ==
  [examples |->
     <<"e", "x", "a", "m", "p", "l", "e", "s">>,
   usage |->
     <<"u", "s", "a", "g", "e">>,
   About |->
     <<"A", "b", "o", "u", "t">>,
   Description |->
     <<"D", "e", "s", "c", "r", "i", "p", "t", "i", "o", "n">>,
   Credits |->
     <<"C", "r", "e", "d", "i", "t", "s">>,
   Category |->
     <<"C", "a", "t", "e", "g", "o", "r", "y">>,
   Devices |->
     <<"S", "u", "p", "p", "o", "r", "t", "e", "d", " ", "D", "e", "v", "i", "c", "e", "s">>,
   Tags |->
     <<"T", "a", "g", "s">>,
   all |->
     <<"a", "l", "l">>,
   img |->
     <<"<", "i", "m", "g">>,
   src |->
     <<"s", "r", "c", "=">>,
   card_color |->
     <<"c", "a", "r", "d", "_", "c", "o", "l", "o", "r", "=">>,
   FontAwesome |->
     <<"h", "t", "t", "p", "s", ":", "/", "/", "r", "a", "w", "g", "i", "t", "h", "u", "b", ".", "c", "o", "m", "/", "F", "o", "r", "t", "A", "w", "e", "s", "o", "m", "e", "/", "F", "o", "n", "t", "-", "A", "w", "e", "s", "o", "m", "e">>,
   github |->
     <<"g", "i", "t", "h", "u", "b", ".", "c", "o", "m">>,
   raw |->
     <<"r", "a", "w", ".", "g", "i", "t", "h", "u", "b", "u", "s", "e", "r", "c", "o", "n", "t", "e", "n", "t", ".", "c", "o", "m">>]

(***************************************************************************)
(* str methods                                                             *)
(***************************************************************************)
Whitespace == {" ", "\n", "\t", "\r"}

UpperCase == <<"A", "B", "C", "D", "E", "F", "G", "H", "I", "J", "K", "L", "M",
               "N", "O", "P", "Q", "R", "S", "T", "U", "V", "W", "X", "Y", "Z">>

LowerCase == <<"a", "b", "c", "d", "e", "f", "g", "h", "i", "j", "k", "l", "m",
               "n", "o", "p", "q", "r", "s", "t", "u", "v", "w", "x", "y", "z">>

Digits == {"0", "1", "2", "3", "4", "5", "6", "7", "8", "9"}

Range(s) == {s[i] : i \in DOMAIN s}

lower_char(c) ==
  IF \E i \in DOMAIN UpperCase : UpperCase[i] = c
  THEN LowerCase[CHOOSE i \in DOMAIN UpperCase : UpperCase[i] = c]
  ELSE c

upper_char(c) ==
  IF \E i \in DOMAIN LowerCase : LowerCase[i] = c
  THEN UpperCase[CHOOSE i \in DOMAIN LowerCase : LowerCase[i] = c]
  ELSE c

lower(s) == [i \in DOMAIN s |-> lower_char(s[i])]

isalnum(c) == c \in Range(UpperCase) \cup Range(LowerCase) \cup Digits

RECURSIVE lstrip_chars(_, _)
lstrip_chars(s, chars) ==
  IF s # <<>> /\ Head(s) \in chars THEN lstrip_chars(Tail(s), chars) ELSE s

RECURSIVE rstrip_chars(_, _)
rstrip_chars(s, chars) ==
  IF s # <<>> /\ s[Len(s)] \in chars
  THEN rstrip_chars(SubSeq(s, 1, Len(s) - 1), chars)
  ELSE s

strip_chars(s, chars) == rstrip_chars(lstrip_chars(s, chars), chars)

strip(s) == strip_chars(s, Whitespace)

startswith(s, prefix) ==
  /\ Len(prefix) <= Len(s)
  /\ SubSeq(s, 1, Len(prefix)) = prefix

endswith(s, suffix) ==
  /\ Len(suffix) <= Len(s)
  /\ SubSeq(s, Len(s) - Len(suffix) + 1, Len(s)) = suffix

\* s[n:]
slice_from(s, n) == SubSeq(s, n + 1, Len(s))

\* the least index of s holding a character of chars, 0 when there is none
find_char(s, chars) ==
  IF \E i \in DOMAIN s : s[i] \in chars
  THEN CHOOSE i \in DOMAIN s :
         /\ s[i] \in chars
         /\ \A j \in 1..(i - 1) : s[j] \notin chars
  ELSE 0

\* s.split(c) for a one-character separator, re.split(r'[..]', s) for a class
RECURSIVE split_chars(_, _)
split_chars(s, chars) ==
  LET i == find_char(s, chars)
  IN  IF i = 0 THEN <<s>>
      ELSE <<SubSeq(s, 1, i - 1)>> \o split_chars(slice_from(s, i), chars)

\* sep.join(parts)
RECURSIVE join(_, _)
join(sep, parts) ==
  IF parts = <<>> THEN <<>>
  ELSE IF Len(parts) = 1 THEN parts[1]
  ELSE parts[1] \o sep \o join(sep, Tail(parts))

\* sub in s
contains(s, sub) ==
  \E i \in 1..(Len(s) - Len(sub) + 1) : SubSeq(s, i, i + Len(sub) - 1) = sub

\* the least index at which sub starts in s, 0 when it does not occur
find_sub(s, sub) ==
  IF contains(s, sub)
  THEN CHOOSE i \in 1..(Len(s) - Len(sub) + 1) :
         /\ SubSeq(s, i, i + Len(sub) - 1) = sub
         /\ \A j \in 1..(i - 1) : SubSeq(s, j, j + Len(sub) - 1) # sub
  ELSE 0

\* s.split(sep) for a separator of one or more characters
RECURSIVE split_str(_, _)
split_str(s, sep) ==
  LET i == find_sub(s, sep)
  IN  IF i = 0 THEN <<s>>
      ELSE <<SubSeq(s, 1, i - 1)>> \o split_str(slice_from(s, i + Len(sep) - 1), sep)

\* s.replace(old, new)
RECURSIVE replace(_, _, _)
replace(s, old, new) ==
  LET i == find_sub(s, old)
  IN  IF i = 0 THEN s
      ELSE SubSeq(s, 1, i - 1) \o new
             \o replace(slice_from(s, i + Len(old) - 1), old, new)

\* s.split(): the runs of non-whitespace characters
RECURSIVE split_ws(_)
split_ws(s) ==
  LET t == lstrip_chars(s, Whitespace)
      i == find_char(t, Whitespace)
  IN  IF t = <<>> THEN <<>>
      ELSE IF i = 0 THEN <<t>>
      ELSE <<SubSeq(t, 1, i - 1)>> \o split_ws(slice_from(t, i))

\* s.splitlines(): a line ends at \n, \r or \r\n, and the last one need not end
RECURSIVE splitlines(_)
splitlines(s) ==
  LET i == find_char(s, {"\n", "\r"})
      crlf == i > 0 /\ i < Len(s) /\ s[i] = "\r" /\ s[i + 1] = "\n"
  IN  IF s = <<>> THEN <<>>
      ELSE IF i = 0 THEN <<s>>
      ELSE <<SubSeq(s, 1, i - 1)>> \o splitlines(slice_from(s, IF crlf THEN i + 1 ELSE i))

\* the characters of the model in code point order
Ascii == <<"\t", "\n", "\r", " ", "!", "\"", "#", "$", "%", "&", "'", "(", ")",
           "*", "+", ",", "-", ".", "/", "0", "1", "2", "3", "4", "5", "6", "7",
           "8", "9", ":", ";", "<", "=", ">", "?", "@">>
         \o UpperCase \o <<"[", "\\", "]", "^", "_", Backtick>> \o LowerCase
         \o <<"{", "|", "}", "~">>

ord(c) == CHOOSE i \in DOMAIN Ascii : Ascii[i] = c

\* a < b on str
RECURSIVE str_lt(_, _)
str_lt(a, b) ==
  IF b = <<>> THEN FALSE
  ELSE IF a = <<>> THEN TRUE
  ELSE IF Head(a) = Head(b) THEN str_lt(Tail(a), Tail(b))
  ELSE ord(Head(a)) < ord(Head(b))

\* sorted(xs) on a list of str
RECURSIVE sorted(_)
sorted(xs) ==
  IF xs = <<>> THEN <<>>
  ELSE LET rest == sorted(Tail(xs))
           n == Cardinality({i \in DOMAIN rest : ~ str_lt(Head(xs), rest[i])})
       IN  SubSeq(rest, 1, n) \o <<Head(xs)>> \o SubSeq(rest, n + 1, Len(rest))

(***************************************************************************)
(* OrderedDict                                                             *)
(***************************************************************************)
keys(d) == [i \in DOMAIN d |-> d[i].key]

has_key(d, k) == \E i \in DOMAIN d : d[i].key = k

get_item(d, k) == d[CHOOSE i \in DOMAIN d : d[i].key = k].body

\* d[k] = v: an existing key keeps its place
set_item(d, k, v) ==
  IF has_key(d, k)
  THEN [i \in DOMAIN d |-> IF d[i].key = k THEN [key |-> k, body |-> v] ELSE d[i]]
  ELSE Append(d, [key |-> k, body |-> v])

RECURSIVE del_item(_, _)
del_item(d, k) ==
  IF d = <<>> THEN <<>>
  ELSE IF Head(d).key = k THEN del_item(Tail(d), k)
  ELSE <<Head(d)>> \o del_item(Tail(d), k)

(***************************************************************************)
(* extract_sections                                                        *)
(***************************************************************************)
\* line 144 left out: the line is taken as it is
strip_line_omitted(line) == line

\* line 144: line = line.strip()
strip_line(line) == strip(line)

\* line 145: the test on the stripped line
is_heading(line) ==
  \/ startswith(line, <<"#", " ">>)
  \/ startswith(line, <<"#", "#", " ">>)

\* line 146: line.strip('# ')
heading_key(line) == strip_chars(line, {"#", " "})

\* lines 144-149: one turn of the loop, on the state [last_section, sections]
es_step(st, raw_line) ==
  LET line == strip_line(raw_line)
  IN  IF is_heading(line)
      THEN [last_section |-> heading_key(line),
            sections |-> set_item(st.sections, heading_key(line), <<>>)]
      ELSE [last_section |-> st.last_section,
            sections |-> set_item(st.sections, st.last_section,
                            get_item(st.sections, st.last_section)
                              \o <<"\n">> \o line)]

\* lines 150-151
strip_bodies(d) == [i \in DOMAIN d |-> [key |-> d[i].key, body |-> strip(d[i].body)]]

\* line 152 left out: the preamble stays where it was put
shift_omitted(d) == d

\* line 152: sections[''] = sections.pop('')
shift_to_end(d) == Append(del_item(d, <<>>), [key |-> <<>>, body |-> get_item(d, <<>>)])

\* lines 141-142
es_start == [last_section |-> <<>>, sections |-> <<[key |-> <<>>, body |-> <<>>]>>]

RECURSIVE es_loop(_, _)
es_loop(st, lines) ==
  IF lines = <<>> THEN st ELSE es_loop(es_step(st, Head(lines)), Tail(lines))

extract_sections(content) ==
  shift_to_end(strip_bodies(es_loop(es_start, split_chars(content, {"\n"})).sections))

(***************************************************************************)
(* compare: difflib.SequenceMatcher(a, b).ratio() on the lowered strings.  *)
(* No junk function is given and the strings are shorter than the 200      *)
(* characters at which popular characters are dropped.                     *)
(***************************************************************************)
\* the length of the common run of a from i and b from j, inside the windows
RECURSIVE match_len(_, _, _, _, _, _)
match_len(a, b, i, j, ahi, bhi) ==
  IF i <= ahi /\ j <= bhi /\ a[i] = b[j]
  THEN 1 + match_len(a, b, i + 1, j + 1, ahi, bhi)
  ELSE 0

\* find_longest_match on a[alo..ahi], b[blo..bhi]: the longest block, the
\* earliest in a and then the earliest in b; <<i, j, size>>
find_longest_match(a, b, alo, ahi, blo, bhi) ==
  LET at == [p \in (alo..ahi) \X (blo..bhi) |->
               match_len(a, b, p[1], p[2], ahi, bhi)]
      best == CHOOSE k \in {0} \cup {at[p] : p \in DOMAIN at} :
                \A p \in DOMAIN at : at[p] <= k
  IN  IF best = 0 THEN <<alo, blo, 0>>
      ELSE LET i == CHOOSE x \in alo..ahi :
                      /\ \E y \in blo..bhi : at[<<x, y>>] = best
                      /\ \A x2 \in alo..(x - 1) :
                           \A y \in blo..bhi : at[<<x2, y>>] # best
               j == CHOOSE y \in blo..bhi :
                      /\ at[<<i, y>>] = best
                      /\ \A y2 \in blo..(y - 1) : at[<<i, y2>>] # best
           IN  <<i, j, best>>

\* the summed size of get_matching_blocks
RECURSIVE matches(_, _, _, _, _, _)
matches(a, b, alo, ahi, blo, bhi) ==
  IF alo > ahi \/ blo > bhi THEN 0
  ELSE LET m == find_longest_match(a, b, alo, ahi, blo, bhi)
       IN  IF m[3] = 0 THEN 0
           ELSE m[3] + matches(a, b, alo, m[1] - 1, blo, m[2] - 1)
                     + matches(a, b, m[1] + m[3], ahi, m[2] + m[3], bhi)

\* ratio(): 2.0 * matches / length, 1.0 for two empty strings; the float is
\* kept as the fraction <<numerator, denominator>>
ratio(a, b) ==
  IF Len(a) + Len(b) = 0 THEN <<1, 1>>
  ELSE <<2 * matches(a, b, 1, Len(a), 1, Len(b)), Len(a) + Len(b)>>

compare(a, b) == ratio(lower(a), lower(b))

\* x < y, x > y and x = y on fractions with positive denominators
frac_lt(x, y) == x[1] * y[2] < y[1] * x[2]

frac_eq(x, y) == x[1] * y[2] = y[1] * x[2]

(***************************************************************************)
(* find_section                                                            *)
(***************************************************************************)
\* min_conf's default, 0.5, and the 0.9 of generate_summary
DefaultMinConf == <<1, 2>>

StrictMinConf == <<9, 10>>

\* max that keeps its element only while it is strictly the greater: the last
\* of the greatest wins
max_keeps_greater(kept_conf, conf) == frac_lt(conf, kept_conf)

\* max(..., key=lambda x: x[1]) keeps the first of the greatest: a later
\* element replaces the kept one only when it is greater
max_keeps(kept_conf, conf) == ~ frac_lt(kept_conf, conf)

\* lines 172-173, one element of the list: best is <<title, conf>>
fs_step(best, title, name) ==
  LET conf == compare(title, name)
  IN  IF best # None /\ max_keeps(best[2], conf) THEN best ELSE <<title, conf>>

RECURSIVE fs_max(_, _, _)
fs_max(best, titles, name) ==
  IF titles = <<>> THEN best
  ELSE fs_max(fs_step(best, Head(titles), name), Tail(titles), name)

\* line 175
fs_return(best, sects, min_conf) ==
  IF frac_lt(best[2], min_conf) THEN None ELSE get_item(sects, best[1])

find_section(name, sects, min_conf) ==
  fs_return(fs_max(None, keys(sects), name), sects, min_conf)

\* a or b on Optional[str]
py_or(a, b) == IF truthy(a) THEN a ELSE b

(***************************************************************************)
(* format_sentence, caps                                                   *)
(***************************************************************************)
caps(s) == IF s = <<>> THEN s ELSE <<upper_char(s[1])>> \o Tail(s)

\* lines 181-182 left out: no full stop is added
sentence_end_omitted(s) == s

\* lines 181-182: the full stop that ends a sentence
sentence_end(s) == s \o <<".">>

format_sentence(s) ==
  LET c == caps(s)
  IN  IF c # <<>> /\ isalnum(c[Len(c)]) THEN sentence_end(c) ELSE c

(***************************************************************************)
(* parse_example                                                           *)
(***************************************************************************)
\* line 197
WakeWords == << <<"h", "e", "y", " ", "m", "y", "c", "r", "o", "f", "t">>,
                <<"m", "y", "c", "r", "o", "f", "t">>,
                <<"h", "e", "y", "-", "m", "y", "c", "r", "o", "f", "t">> >>

\* line 203
QuestionWords == {<<"w", "h", "o">>, <<"w", "h", "a", "t">>,
                  <<"w", "h", "e", "n">>, <<"w", "h", "e", "r", "e">>}

\* line 204: "d" "'re" is one literal, d're
QuestionSuffixes == {<<"'", "s">>, <<"s">>, <<>>, <<"'", "d">>,
                     <<"d", "'", "r", "e">>, <<"r", "e">>}

\* lines 193-194
pe_unquote(example) ==
  split_chars(strip_chars(example, {" ", "\n", "\"", "'", Backtick}),
              {"\"", Backtick})[1]

\* lines 198-199
pe_remove(example, prefix) ==
  IF startswith(lower(example), prefix) THEN slice_from(example, Len(prefix))
  ELSE example

\* lines 197-200
pe_unwake(example) ==
  strip_chars(pe_remove(pe_remove(pe_remove(example, WakeWords[1]),
                                  WakeWords[2]), WakeWords[3]),
              {" ", ","})

\* lines 201-205
is_question(example) ==
  \E word \in QuestionWords, suffix \in QuestionSuffixes :
    startswith(lower(example), word \o suffix \o <<" ">>)

\* line 206
pe_question(example) ==
  IF is_question(example)
  THEN rstrip_chars(example, {"?", "."}) \o <<"?">>
  ELSE example

parse_example(example) == format_sentence(pe_question(pe_unwake(pe_unquote(example))))

(***************************************************************************)
(* find_examples: re.findall of a line's rest after a '-' or '*' marker     *)
(***************************************************************************)
BulletMarkers == {"-", "*"}

\* the lookbehind at offset pos (0-based): a marker is right before pos
lookbehind(string, pos) == pos >= 1 /\ string[pos] \in BulletMarkers

\* .* from offset pos: the offset of the next newline, or of the end
dot_star(string, pos) ==
  CHOOSE end \in pos..Len(string) :
    /\ end = Len(string) \/ string[end + 1] = "\n"
    /\ \A e \in pos..(end - 1) : string[e + 1] # "\n"

\* the scan of findall from offset pos: the next offset at which the pattern
\* matches, the match, and the scan from its end; an empty match moves on by one
RECURSIVE re_findall(_, _)
re_findall(string, pos) ==
  IF \E p \in pos..Len(string) : lookbehind(string, p)
  THEN LET at == CHOOSE p \in pos..Len(string) :
                   /\ lookbehind(string, p)
                   /\ \A q \in pos..(p - 1) : ~ lookbehind(string, q)
           end == dot_star(string, at)
       IN  <<SubSeq(string, at + 1, end)>>
             \o re_findall(string, IF end = at THEN at + 1 ELSE end)
  ELSE <<>>

\* lines 217-218
fe_select(sects) ==
  py_or(py_or(find_section(Literals.examples, sects, DefaultMinConf),
              find_section(Literals.usage, sects, DefaultMinConf)), <<>>)

find_examples(sects) == re_findall(fe_select(sects), 0)

(***************************************************************************)
(* find_title_info, find_icon                                              *)
(***************************************************************************)
\* lines 235-239 and 257-261: the first heading with an image tag, or None
icon_section(sects) ==
  IF \E i \in DOMAIN sects : contains(sects[i].key, Literals.img)
  THEN sects[CHOOSE i \in DOMAIN sects :
               /\ contains(sects[i].key, Literals.img)
               /\ \A j \in 1..(i - 1) : ~ contains(sects[j].key, Literals.img)].key
  ELSE None

\* <<title, short_desc>>
find_title_info(sects, skill_name) ==
  LET title_section == icon_section(sects)
      parts == split_str(title_section, <<"/", ">">>)
  IN  IF title_section = None THEN <<sects[1].key, <<>>>>
      ELSE <<strip(parts[Len(parts)]), get_item(sects, title_section)>>

\* lines 268-275: the loop over the heading split at the quotes; st is
\* [url, color, prev]
RECURSIVE icon_attrs(_, _)
icon_attrs(st, parts) ==
  IF parts = <<>> THEN st
  ELSE LET part == strip(Head(parts))
       IN  icon_attrs([url |-> IF endswith(st.prev, Literals.src) THEN part ELSE st.url,
                       color |-> IF ~ endswith(st.prev, Literals.src)
                                    /\ endswith(st.prev, Literals.card_color)
                                 THEN part ELSE st.color,
                       prev |-> part],
                      Tail(parts))

SchemeChars == Range(UpperCase) \cup Range(LowerCase) \cup Digits \cup {"+", "-", "."}

\* urllib.parse.urlparse(url).netloc
netloc(url) ==
  LET i == find_char(url, {":"})
      scheme == /\ i > 1
                /\ url[1] \in Range(UpperCase) \cup Range(LowerCase)
                /\ \A j \in 1..(i - 1) : url[j] \in SchemeChars
      rest == IF scheme THEN slice_from(url, i) ELSE url
  IN  IF startswith(rest, <<"/", "/">>)
      THEN split_chars(slice_from(rest, 2), {"/", "?", "#"})[1]
      ELSE <<>>

\* lines 286-287
raw_url(repo, tree, url) ==
  replace(repo, Literals.github, Literals.raw) \o <<"/">> \o tree \o <<"/">> \o url

\* lines 278-289, from the attributes read: <<url, name, color>>
icon_of(url, color, repo, tree) ==
  IF truthy(url) /\ startswith(url, Literals.FontAwesome)
  THEN LET parts == split_chars(url, {"/"})
       IN  <<None, split_chars(parts[Len(parts)], {"."})[1], color>>
  ELSE IF truthy(url) /\ netloc(url) = <<>>
  THEN <<raw_url(repo, tree, url), None, color>>
  ELSE <<url, None, color>>

find_icon(sects, repo, tree) ==
  LET title_section == icon_section(sects)
      st == icon_attrs([url |-> None, color |-> None, prev |-> <<>>],
                       split_chars(title_section, {"'"}))
  IN  IF title_section = None THEN <<None, None, None>>
      ELSE icon_of(st.url, st.color, repo, tree)

(***************************************************************************)
(* make_credits                                                            *)
(***************************************************************************)
\* lines 300-305: the loop over the words of a line; st is [words, username]
RECURSIVE mc_words(_, _)
mc_words(st, line_words) ==
  IF line_words = <<>> THEN st
  ELSE LET word == strip_chars(Head(line_words), {"(", ")"})
       IN  mc_words(IF startswith(word, <<"@">>)
                    THEN [words |-> st.words, username |-> Tail(word)]
                    ELSE [words |-> Append(st.words, word), username |-> st.username],
                    Tail(line_words))

\* lines 306-312: what a line adds to result; a credit is a function on the
\* fields it has
mc_entry(words, username) ==
  IF words # <<>> /\ truthy(username)
  THEN << [name |-> join(<<" ">>, words), github_id |-> username] >>
  ELSE IF words # <<>> THEN << [name |-> join(<<" ">>, words)] >>
  ELSE IF truthy(username) THEN << [github_id |-> username] >>
  ELSE <<>>

\* lines 298-312: one line of the credits
mc_line(line) ==
  LET st == mc_words([words |-> <<>>, username |-> None], split_ws(line))
  IN  mc_entry(st.words, st.username)

RECURSIVE mc_lines(_)
mc_lines(ls) == IF ls = <<>> THEN <<>> ELSE mc_line(Head(ls)) \o mc_lines(Tail(ls))

make_credits(lines) == mc_lines(splitlines(lines))

(***************************************************************************)
(* generate_summary                                                        *)
(***************************************************************************)
\* lines 396-397
gs_short_desc(short_desc) ==
  rstrip_chars(format_sentence(replace(short_desc, <<"\n">>, <<" ">>)), {"."})

\* lines 398-400
gs_description(sects) ==
  format_sentence(py_or(py_or(find_section(Literals.About, sects, DefaultMinConf),
                              find_section(Literals.Description, sects, DefaultMinConf)),
                        <<>>))

\* line 402
gs_examples(sects) ==
  LET found == find_examples(sects)
  IN  [i \in DOMAIN found |-> parse_example(found[i])]

\* lines 404-406
gs_credits(sects, author) ==
  make_credits(py_or(find_section(Literals.Credits, sects, StrictMinConf), caps(author)))

\* lines 407-410
gs_categories(sects) ==
  LET cats == sorted(split_ws(py_or(find_section(Literals.Category, sects, StrictMinConf),
                                    <<>>)))
  IN  [i \in DOMAIN cats |-> replace(cats[i], <<"*">>, <<>>)]

\* lines 411-412
gs_platforms(sects) ==
  split_ws(py_or(find_section(Literals.Devices, sects, StrictMinConf), Literals.all))

\* lines 413-414
gs_tags(sects) ==
  split_ws(replace(py_or(find_section(Literals.Tags, sects, DefaultMinConf), <<>>),
                   <<"#">>, <<>>))

\* lines 419-422: the icon fields added to the entry; icon is find_icon's
\* <<icon_url, icon_name, icon_color>>
gs_icon(entry, icon) ==
  IF truthy(icon[1]) THEN entry @@ [icon_img |-> icon[1]]
  ELSE IF truthy(icon[2]) THEN entry @@ [icon |-> [icon |-> icon[2], color |-> icon[3]]]
  ELSE entry

\* lines 385-424: the entry made of a fetched README
gs_entry(repo_url, readme, skill_entry) ==
  LET sects == extract_sections(readme)
      info == find_title_info(sects, skill_entry.name)
  IN  gs_icon([repo |-> repo_url,
               tree |-> skill_entry.sha,
               name |-> skill_entry.name,
               github_username |-> skill_entry.author,
               title |-> info[1],
               short_desc |-> gs_short_desc(info[2]),
               description |-> gs_description(sects),
               examples |-> gs_examples(sects),
               credits |-> gs_credits(sects, skill_entry.author),
               categories |-> gs_categories(sects),
               platforms |-> gs_platforms(sects),
               tags |-> gs_tags(sects)],
              find_icon(sects, repo_url, skill_entry.sha))

(***************************************************************************)
(* The functions that are not running                                      *)
(***************************************************************************)
\* every function but the running one is at rest
idle_but(running) ==
  /\ running # "sections" =>
       /\ readme_content = <<>>
       /\ line_no = 0
       /\ last_section = <<>>
       /\ sections = <<>>
       /\ es_pc = "idle"
  /\ running # "find" =>
       /\ fs_name = <<>>
       /\ fs_sections = <<>>
       /\ fs_min_conf = DefaultMinConf
       /\ fs_no = 0
       /\ fs_best = None
       /\ fs_result = None
       /\ fs_pc = "idle"
  /\ running # "example" =>
       /\ pe_input = <<>>
       /\ pe_example = <<>>
       /\ pe_pc = "idle"
  /\ running # "credits" =>
       /\ mc_input = <<>>
       /\ mc_no = 0
       /\ mc_result = <<>>
       /\ mc_pc = "idle"
  /\ running # "examples" =>
       /\ fe_sections = <<>>
       /\ fe_string = <<>>
       /\ fe_pos = 0
       /\ fe_found = <<>>
       /\ fe_pc = "idle"
  /\ running # "summary" =>
       /\ gs_github = None
       /\ gs_skill_entry = None
       /\ gs_repo_url = <<>>
       /\ gs_sections = <<>>
       /\ gs_title = <<>>
       /\ gs_record = None
       /\ gs_pc = "idle"
  /\ running # "main" =>
       /\ skills = <<>>
       /\ github = <<>>
       /\ skill_no = 0
       /\ summaries = <<>>
       /\ output = None
       /\ main_pc = "idle"

\* the sequences of at most n elements of S
SeqUpTo(S, n) == UNION {[1..k -> S] : k \in 0..n}

(***************************************************************************)
(* extract_sections, line by line                                          *)
(***************************************************************************)
MaxLines == 3

\* the lines the READMEs of the model are made of
SectionLines == {<<"#", " ", "a">>,
                 <<"#", "#", " ", "b">>,
                 <<"#", " ", "#">>,
                 <<" ", " ", "x">>,
                 <<"y">>,
                 <<>>,
                 <<"#", "#", "#", " ", "c">>,
                 <<" ", "#", " ", "a", " ", "#">>,
                 <<"#", "a">>,
                 <<"#", "#", " ", "#", "b">>}

Readmes == {join(<<"\n">>, ls) : ls \in SeqUpTo(SectionLines, MaxLines)}

readme_lines == split_chars(readme_content, {"\n"})

\* lines 143-149, one line of the README
es_line(heading) ==
  /\ es_pc = "loop"
  /\ line_no < Len(readme_lines)
  /\ is_heading(strip_line(readme_lines[line_no + 1])) = heading
  /\ LET st == es_step([last_section |-> last_section, sections |-> sections],
                       readme_lines[line_no + 1])
     IN  /\ last_section' = st.last_section
         /\ sections' = st.sections
  /\ line_no' = line_no + 1
  /\ UNCHANGED <<readme_content, es_pc>>
  /\ UNCHANGED <<vars_find, vars_example, vars_credits,
                 vars_examples, vars_summary, vars_main>>

\* lines 146-147
es_heading == es_line(TRUE)

\* line 149
es_body == es_line(FALSE)

\* lines 150-153
es_return ==
  /\ es_pc = "loop"
  /\ line_no = Len(readme_lines)
  /\ sections' = shift_to_end(strip_bodies(sections))
  /\ es_pc' = "done"
  /\ UNCHANGED <<readme_content, line_no, last_section>>
  /\ UNCHANGED <<vars_find, vars_example, vars_credits,
                 vars_examples, vars_summary, vars_main>>

NextSections == es_heading \/ es_body \/ es_return

InitSections ==
  /\ idle_but("sections")
  /\ readme_content \in Readmes
  /\ line_no = 0
  /\ last_section = es_start.last_section
  /\ sections = es_start.sections
  /\ es_pc = "loop"

SpecSections == InitSections /\ [][NextSections]_vars

(***************************************************************************)
(* Properties of extract_sections                                          *)
(***************************************************************************)
\* the lines of the README that are heading lines: after trimming, one or two
\* '#' and a space
heading_lines == {i \in DOMAIN readme_lines : is_heading(strip(readme_lines[i]))}

\* the README's lines from..to, each trimmed, joined and trimmed
trimmed_lines(from, to) ==
  strip(join(<<"\n">>, [i \in 1..(to - from + 1) |-> strip(readme_lines[from + i - 1])]))

\* C2: the map extract_sections returns holds the empty-string key, and that
\* key is the last one in iteration order
C2_EmptyKeyIsLast ==
  es_pc = "done" =>
    /\ has_key(sections, <<>>)
    /\ sections[Len(sections)].key = <<>>

\* C2's case: a README with a heading, and a heading line whose text is
\* reduced to the empty string, has been split
C2_Witness ==
  /\ es_pc = "done"
  /\ Len(sections) > 1
  /\ \E i \in heading_lines : heading_key(strip(readme_lines[i])) = <<>>

\* C3 as stated: without heading lines the map has the one key '' and its body
\* is the whole README with only its leading and trailing whitespace removed
C3_WholeDocumentVerbatim ==
  (es_pc = "done" /\ heading_lines = {}) =>
    sections = << [key |-> <<>>, body |-> strip(readme_content)] >>

\* C3 amended: without heading lines the map has the one key '' and its body
\* is the README's lines, each trimmed of leading and trailing whitespace,
\* joined by newlines and trimmed as a whole
C3_WholeDocumentLineTrimmed ==
  (es_pc = "done" /\ heading_lines = {}) =>
    sections = << [key |-> <<>>, body |-> trimmed_lines(1, Len(readme_lines))] >>

\* C3's case: a README without headings, with an indented interior line, has
\* been split
C3_Witness ==
  /\ es_pc = "done"
  /\ heading_lines = {}
  /\ \E i \in 2..Len(readme_lines) :
       /\ strip(readme_lines[i]) # <<>>
       /\ Head(readme_lines[i]) \in Whitespace
       /\ \E j \in 1..(i - 1) : strip(readme_lines[j]) # <<>>

\* the text of a heading line after its marker of one or two '#', trimmed
marker_stripped(line) ==
  strip(slice_from(strip(line), find_char(strip(line), {" "})))

\* the heading line that follows heading line h, or the end
next_heading(h) ==
  IF \E g \in heading_lines : g > h
  THEN CHOOSE g \in heading_lines : g > h /\ \A f \in heading_lines : f > h => g <= f
  ELSE Len(readme_lines) + 1

\* C10: every heading line is keyed by its text after the marker, trimmed and
\* otherwise verbatim; the body under '' is the lines before the first heading
\* line, the body of a heading the lines up to the next heading line; so no
\* line that is not a heading line is dropped or put under another section
C10_SectionsKeepEveryLine ==
  es_pc = "done" =>
    /\ \A h \in heading_lines :
         /\ has_key(sections, marker_stripped(readme_lines[h]))
         /\ get_item(sections, marker_stripped(readme_lines[h]))
              = trimmed_lines(h + 1, next_heading(h) - 1)
    /\ get_item(sections, <<>>) = trimmed_lines(1, next_heading(0) - 1)

(***************************************************************************)
(* find_section, title by title                                            *)
(***************************************************************************)
MaxKeys == 3

\* the headings and the names looked up
KeyPool == {<<>>, <<"a">>, <<"A">>, <<"b">>, <<"a", "b">>, <<"A", "b">>, <<"b", "a">>, <<"b", "b">>}

NamePool == {<<>>, <<"a">>, <<"a", "b">>, <<"A", "B">>, <<"b", "a">>}

BodyMarks == <<"1", "2", "3", "4", "5", "6", "7", "8", "9">>

\* the section maps of at most MaxKeys headings, each with a body of its own
SectionMaps ==
  {[i \in DOMAIN ks |-> [key |-> ks[i], body |-> <<BodyMarks[i]>>]] :
     ks \in {q \in SeqUpTo(KeyPool, MaxKeys) :
               /\ q # <<>>
               /\ \A i, j \in DOMAIN q : i # j => q[i] # q[j]}}

\* lines 172-173, one title of the section map
fs_compare ==
  /\ fs_pc = "max"
  /\ fs_no < Len(fs_sections)
  /\ fs_best' = fs_step(fs_best, fs_sections[fs_no + 1].key, fs_name)
  /\ fs_no' = fs_no + 1
  /\ UNCHANGED <<fs_name, fs_sections, fs_min_conf, fs_result, fs_pc>>
  /\ UNCHANGED <<vars_sections, vars_example, vars_credits,
                 vars_examples, vars_summary, vars_main>>

\* line 175
fs_done ==
  /\ fs_pc = "max"
  /\ fs_no = Len(fs_sections)
  /\ fs_result' = fs_return(fs_best, fs_sections, fs_min_conf)
  /\ fs_pc' = "done"
  /\ UNCHANGED <<fs_name, fs_sections, fs_min_conf, fs_no, fs_best>>
  /\ UNCHANGED <<vars_sections, vars_example, vars_credits,
                 vars_examples, vars_summary, vars_main>>

NextFind == fs_compare \/ fs_done

InitFind ==
  /\ idle_but("find")
  /\ fs_name \in NamePool
  /\ fs_sections \in SectionMaps
  /\ fs_min_conf \in {DefaultMinConf, StrictMinConf}
  /\ fs_no = 0
  /\ fs_best = None
  /\ fs_result = None
  /\ fs_pc = "max"

SpecFind == InitFind /\ [][NextFind]_vars

(***************************************************************************)
(* Properties of find_section                                              *)
(***************************************************************************)
\* the similarity of the i-th heading to the name
conf_of(i) == compare(fs_sections[i].key, fs_name)

\* the first heading, in iteration order, of the greatest similarity
first_greatest ==
  CHOOSE i \in DOMAIN fs_sections :
    /\ \A j \in DOMAIN fs_sections : ~ frac_lt(conf_of(i), conf_of(j))
    /\ \A j \in 1..(i - 1) : frac_lt(conf_of(j), conf_of(i))

\* C4: find_section selects the heading of the greatest case-insensitive
\* similarity to the name, the first one in iteration order on a tie, returns
\* its body when the similarity is at least the threshold and None otherwise;
\* a heading equal to the name is selected over every heading of lower ratio
C4_FirstGreatestSelected ==
  fs_pc = "done" =>
    /\ fs_best = <<fs_sections[first_greatest].key, conf_of(first_greatest)>>
    /\ fs_result = IF frac_lt(conf_of(first_greatest), fs_min_conf)
                   THEN None
                   ELSE fs_sections[first_greatest].body
    /\ has_key(fs_sections, fs_name) =>
         /\ frac_eq(fs_best[2], <<1, 1>>)
         /\ fs_result # None
         /\ \A i \in DOMAIN fs_sections :
              frac_lt(conf_of(i), <<1, 1>>) => fs_result # fs_sections[i].body

\* C4's case: a lookup has returned a body where two headings tie for the
\* greatest similarity
C4_Witness ==
  /\ fs_pc = "done"
  /\ fs_result # None
  /\ \E i \in DOMAIN fs_sections :
       i # first_greatest /\ frac_eq(conf_of(i), conf_of(first_greatest))

(***************************************************************************)
(* parse_example, statement by statement                                   *)
(***************************************************************************)
MaxTrail == 2

\* the parts the example lines of the model are made of: quotes, a wake
\* word, a first word and its ending, the rest, closing punctuation
ExampleQuotes == {<<>>, <<"\"">>}

ExampleWakes == {<<>>,
                 <<"H", "e", "y", " ", "M", "y", "c", "r", "o", "f", "t", ",", " ">>,
                 <<"m", "y", "c", "r", "o", "f", "t", " ">>}

ExampleWords == {<<"w", "h", "o">>,
                 <<"w", "h", "a", "t">>,
                 <<"W", "h", "e", "n">>,
                 <<"w", "h", "e", "r", "e">>,
                 <<"h", "o", "w">>}

ExampleEndings == {<<"'", "s">>,
                   <<"s">>,
                   <<"'", "d">>,
                   <<"d">>,
                   <<"'", "r", "e">>,
                   <<"r", "e">>,
                   <<>>}

ExampleRests == {<<"x">>,
                 <<"i", "s", " ", "i", "t">>}

ExampleTrails == SeqUpTo({".", "?"}, MaxTrail)

ExampleInputs ==
  {q \o w \o f \o e \o <<" ">> \o r \o t \o q :
     q \in ExampleQuotes, w \in ExampleWakes, f \in ExampleWords,
     e \in ExampleEndings, r \in ExampleRests, t \in ExampleTrails}

\* lines 193-194
pe_strip ==
  /\ pe_pc = "unquote"
  /\ pe_example' = pe_unquote(pe_example)
  /\ pe_pc' = "unwake"
  /\ UNCHANGED <<pe_input>>
  /\ UNCHANGED <<vars_sections, vars_find, vars_credits,
                 vars_examples, vars_summary, vars_main>>

\* lines 197-200
pe_wake ==
  /\ pe_pc = "unwake"
  /\ pe_example' = pe_unwake(pe_example)
  /\ pe_pc' = "question"
  /\ UNCHANGED <<pe_input>>
  /\ UNCHANGED <<vars_sections, vars_find, vars_credits,
                 vars_examples, vars_summary, vars_main>>

\* lines 201-206, the condition holds
pe_mark ==
  /\ pe_pc = "question"
  /\ is_question(pe_example)
  /\ pe_example' = pe_question(pe_example)
  /\ pe_pc' = "format"
  /\ UNCHANGED <<pe_input>>
  /\ UNCHANGED <<vars_sections, vars_find, vars_credits,
                 vars_examples, vars_summary, vars_main>>

\* lines 201-205, the condition fails
pe_plain ==
  /\ pe_pc = "question"
  /\ ~ is_question(pe_example)
  /\ pe_pc' = "format"
  /\ UNCHANGED <<pe_input, pe_example>>
  /\ UNCHANGED <<vars_sections, vars_find, vars_credits,
                 vars_examples, vars_summary, vars_main>>

\* lines 207-208
pe_format ==
  /\ pe_pc = "format"
  /\ pe_example' = format_sentence(pe_example)
  /\ pe_pc' = "done"
  /\ UNCHANGED <<pe_input>>
  /\ UNCHANGED <<vars_sections, vars_find, vars_credits,
                 vars_examples, vars_summary, vars_main>>

NextExample == pe_strip \/ pe_wake \/ pe_mark \/ pe_plain \/ pe_format

InitExample ==
  /\ idle_but("example")
  /\ pe_input \in ExampleInputs
  /\ pe_example = pe_input
  /\ pe_pc = "unquote"

SpecExample == InitExample /\ [][NextExample]_vars

(***************************************************************************)
(* Properties of parse_example                                             *)
(***************************************************************************)
\* the endings an interrogative word may have: line 204 with d and 're apart
ListedSuffixes == {<<"'", "s">>, <<"s">>, <<"'", "d">>, <<"d">>,
                   <<"'", "r", "e">>, <<"r", "e">>, <<>>}

\* the text left after the quotes and the wake word are removed begins with
\* an interrogative word, a listed ending and a space
listed_question(text) ==
  \E word \in QuestionWords, suffix \in ListedSuffixes :
    startswith(lower(text), word \o suffix \o <<" ">>)

\* C5: an example whose text after wake-word removal begins with who, what,
\* when or where, one of the endings 's, s, 'd, d, 're, re or none, and a
\* space, comes out ending with exactly one '?', with no '.' appended
C5_QuestionsEndWithOneMark ==
  (pe_pc = "done" /\ listed_question(pe_unwake(pe_unquote(pe_input)))) =>
    /\ pe_example # <<>>
    /\ pe_example[Len(pe_example)] = "?"
    /\ Len(pe_example) > 1 => pe_example[Len(pe_example) - 1] \notin {"?", "."}

(***************************************************************************)
(* make_credits, line by line                                              *)
(***************************************************************************)
MaxCreditWords == 2

MaxCreditLines == 2

\* the words the credits of the model are made of
CreditWords == {<<"@", "a">>,
                <<"b">>,
                <<"(", "@", "c", ")">>,
                <<"(", ")">>,
                <<"@">>,
                <<"(", "d", ")">>}

CreditLines == {join(<<" ">>, ws) : ws \in SeqUpTo(CreditWords, MaxCreditWords)}

CreditTexts == {join(<<"\n">>, ls) : ls \in SeqUpTo(CreditLines, MaxCreditLines)}

\* lines 297-312, a line that appends a credit
mc_append ==
  /\ mc_pc = "loop"
  /\ mc_no < Len(splitlines(mc_input))
  /\ mc_line(splitlines(mc_input)[mc_no + 1]) # <<>>
  /\ mc_result' = mc_result \o mc_line(splitlines(mc_input)[mc_no + 1])
  /\ mc_no' = mc_no + 1
  /\ UNCHANGED <<mc_input, mc_pc>>
  /\ UNCHANGED <<vars_sections, vars_find, vars_example,
                 vars_examples, vars_summary, vars_main>>

\* lines 297-312, a line that appends nothing
mc_skip ==
  /\ mc_pc = "loop"
  /\ mc_no < Len(splitlines(mc_input))
  /\ mc_line(splitlines(mc_input)[mc_no + 1]) = <<>>
  /\ mc_no' = mc_no + 1
  /\ UNCHANGED <<mc_input, mc_result, mc_pc>>
  /\ UNCHANGED <<vars_sections, vars_find, vars_example,
                 vars_examples, vars_summary, vars_main>>

\* line 314
mc_return ==
  /\ mc_pc = "loop"
  /\ mc_no = Len(splitlines(mc_input))
  /\ mc_pc' = "done"
  /\ UNCHANGED <<mc_input, mc_no, mc_result>>
  /\ UNCHANGED <<vars_sections, vars_find, vars_example,
                 vars_examples, vars_summary, vars_main>>

NextCredits == mc_append \/ mc_skip \/ mc_return

InitCredits ==
  /\ idle_but("credits")
  /\ mc_input \in CreditTexts
  /\ mc_no = 0
  /\ mc_result = <<>>
  /\ mc_pc = "loop"

SpecCredits == InitCredits /\ [][NextCredits]_vars

(***************************************************************************)
(* Properties of make_credits                                              *)
(***************************************************************************)
\* the credit a line is to give: the fields, of name and github_id, that are
\* not empty, and no credit when both are
RECURSIVE credits_due(_)
credits_due(ls) ==
  IF ls = <<>> THEN <<>>
  ELSE LET st == mc_words([words |-> <<>>, username |-> None], split_ws(Head(ls)))
           name == join(<<" ">>, st.words)
           both == << [name |-> name, github_id |-> st.username] >>
           due == IF name # <<>> /\ truthy(st.username) THEN both
                  ELSE IF name # <<>> THEN << [name |-> name] >>
                  ELSE IF truthy(st.username) THEN << [github_id |-> st.username] >>
                  ELSE <<>>
       IN  due \o credits_due(Tail(ls))

\* C6: every credit has a name or a github_id, every field it has is a
\* non-empty string, a line with neither a non-empty name nor a non-empty
\* handle gives no credit, and the credits are in the order of their lines
C6_CreditsHaveNonEmptyFields ==
  mc_pc = "done" =>
    /\ \A i \in DOMAIN mc_result :
         /\ DOMAIN mc_result[i] # {}
         /\ \A f \in DOMAIN mc_result[i] : mc_result[i][f] # <<>>
    /\ mc_result = credits_due(splitlines(mc_input))

(***************************************************************************)
(* find_examples, match by match                                           *)
(***************************************************************************)
MaxExampleLines == 2

\* the lines the section bodies of the model are made of
BodyLines == {<<"-", " ", "a">>,
              <<"*", " ", "b">>,
              <<"s", "a", "y", " ", "x", " ", "-", " ", "y">>,
              <<"h", "e", "y", "-", "m", "y", "c", "r", "o", "f", "t", " ", "c">>,
              <<"-">>,
              <<>>}

BodyTexts == {join(<<"\n">>, ls) : ls \in SeqUpTo(BodyLines, MaxExampleLines)}

\* section maps as extract_sections leaves them, the preamble last: with an
\* examples section, a usage section, both, or neither
ExampleMaps ==
  LET Examples == <<"E", "x", "a", "m", "p", "l", "e", "s">>
      Usage == <<"U", "s", "a", "g", "e">>
      About == Literals.About
      preamble == [key |-> <<>>, body |-> <<>>]
  IN  {<< [key |-> h, body |-> b], preamble >> :
         h \in {Examples, Usage, About}, b \in BodyTexts}
      \cup
      {<< [key |-> Usage, body |-> u], [key |-> Examples, body |-> b], preamble >> :
         u \in {<<"-", "u">>}, b \in BodyTexts}

\* lines 217-218
fe_choose ==
  /\ fe_pc = "select"
  /\ fe_string' = fe_select(fe_sections)
  /\ fe_pc' = "scan"
  /\ UNCHANGED <<fe_sections, fe_pos, fe_found>>
  /\ UNCHANGED <<vars_sections, vars_find, vars_example,
                 vars_credits, vars_summary, vars_main>>

\* line 219, the pattern matches at the offset
fe_match ==
  /\ fe_pc = "scan"
  /\ fe_pos <= Len(fe_string)
  /\ lookbehind(fe_string, fe_pos)
  /\ fe_found' = Append(fe_found, SubSeq(fe_string, fe_pos + 1, dot_star(fe_string, fe_pos)))
  /\ fe_pos' = IF dot_star(fe_string, fe_pos) = fe_pos THEN fe_pos + 1
               ELSE dot_star(fe_string, fe_pos)
  /\ UNCHANGED <<fe_sections, fe_string, fe_pc>>
  /\ UNCHANGED <<vars_sections, vars_find, vars_example,
                 vars_credits, vars_summary, vars_main>>

\* line 219, the pattern does not match at the offset
fe_miss ==
  /\ fe_pc = "scan"
  /\ fe_pos <= Len(fe_string)
  /\ ~ lookbehind(fe_string, fe_pos)
  /\ fe_pos' = fe_pos + 1
  /\ UNCHANGED <<fe_sections, fe_string, fe_found, fe_pc>>
  /\ UNCHANGED <<vars_sections, vars_find, vars_example,
                 vars_credits, vars_summary, vars_main>>

\* lines 216-220, the string is exhausted
fe_return ==
  /\ fe_pc = "scan"
  /\ fe_pos > Len(fe_string)
  /\ fe_pc' = "done"
  /\ UNCHANGED <<fe_sections, fe_string, fe_pos, fe_found>>
  /\ UNCHANGED <<vars_sections, vars_find, vars_example,
                 vars_credits, vars_summary, vars_main>>

NextExamples == fe_choose \/ fe_match \/ fe_miss \/ fe_return

InitExamples ==
  /\ idle_but("examples")
  /\ fe_sections \in ExampleMaps
  /\ fe_string = None
  /\ fe_pos = 0
  /\ fe_found = <<>>
  /\ fe_pc = "select"

SpecExamples == InitExamples /\ [][NextExamples]_vars

(***************************************************************************)
(* Properties of find_examples                                             *)
(***************************************************************************)
\* of the given lines, those that begin with a bullet marker, each without
\* its marker, in order
RECURSIVE bullets(_)
bullets(ls) ==
  IF ls = <<>> THEN <<>>
  ELSE (IF Head(ls) # <<>> /\ Head(Head(ls)) \in BulletMarkers
        THEN <<Tail(Head(ls))>> ELSE <<>>) \o bullets(Tail(ls))

\* C9: find_examples returns one raw example per line of the selected
\* examples (or usage) section that begins with '-' or '*', the text after the
\* marker, in line order and with repetitions kept; a line that does not
\* begin with a marker gives no example, whatever it contains
C9_OnlyBulletLinesGiveExamples ==
  fe_pc = "done" => fe_found = bullets(split_chars(fe_string, {"\n"}))

(***************************************************************************)
(* generate_summary, step by step.  main hands it the Github object of     *)
(* load_github, so the README and the repository URL come from GitHub.     *)
(***************************************************************************)
\* the heading lines with and without an image tag
TitleLines == {<<"#", " ", "<", "i", "m", "g", " ", "s", "r", "c", "=", "'", "i", ".", "s", "v", "g", "'", " ", "c", "a", "r", "d", "_", "c", "o", "l", "o", "r", "=", "'", "r", "e", "d", "'", "/", ">", " ", "T">>,
               <<"#", " ", "<", "i", "m", "g", " ", "s", "r", "c", "=", "\"", "i", ".", "s", "v", "g", "\"", "/", ">", " ", "T">>,
               <<"#", " ", "<", "i", "m", "g", " ", "s", "r", "c", "=", "'", "h", "t", "t", "p", "s", ":", "/", "/", "r", "a", "w", "g", "i", "t", "h", "u", "b", ".", "c", "o", "m", "/", "F", "o", "r", "t", "A", "w", "e", "s", "o", "m", "e", "/", "F", "o", "n", "t", "-", "A", "w", "e", "s", "o", "m", "e", "/", "x", ".", "s", "v", "g", "'", "/", ">", " ", "T">>,
               <<"#", " ", "<", "i", "m", "g", " ", "s", "r", "c", "=", "'", "h", "t", "t", "p", ":", "/", "/", "h", "/", "i", ".", "p", "n", "g", "'", "/", ">", " ", "T">>,
               <<"#", " ", "<", "i", "m", "g", " ", "s", "r", "c", "=", "'", "'", "/", ">", " ", "T">>,
               <<"#", " ", "T">>}

\* the bodies of the About and Description sections
DescriptionTexts == {<<"h", "i">>,
                     <<"H", "i", "!">>,
                     <<"D", "o", "n", "e", ".">>,
                     <<>>,
                     <<"s", "e", "e", " ", "(", "x", ")">>}

\* a section of the README: nothing, or its heading line and its body
section_text(heading_line, texts) ==
  {<<>>} \cup {<<"\n">> \o heading_line \o <<"\n">> \o t : t \in texts}

SummaryReadmes ==
  {t \o a \o d : t \in TitleLines,
                 a \in section_text(<<"#", "#", " ">> \o Literals.About, DescriptionTexts),
                 d \in section_text(<<"#", "#", " ">> \o Literals.Description, DescriptionTexts)}

\* a listed skill: its name, author, sha and url
SkillEntry ==
  [name |-> <<"s", "k", "i", "l", "l", "-", "x">>,
   author |-> <<"m", "y", "c", "r", "o", "f", "t", "A", "I">>,
   sha |-> <<"a", "f", "b", "9">>,
   url |-> <<"h", "t", "t", "p", "s", ":", "/", "/", "g", "i", "t", "h", "u", "b",
             ".", "c", "o", "m", "/", "o", "/", "s", "k", "i", "l", "l", "-", "x">>]

\* what GitHub answers to get_repo and get_readme: GithubException, or the
\* repository's html_url and README
GithubAnswers(readmes) ==
  {[status |-> "GithubException", html_url |-> <<>>, readme |-> <<>>]}
  \cup {[status |-> "ok", html_url |-> SkillEntry.url, readme |-> r] : r \in readmes}

\* lines 375-381 and 385-386: the README is fetched and split
gs_fetch ==
  /\ gs_pc = "fetch"
  /\ gs_github.status = "ok"
  /\ gs_repo_url' = gs_github.html_url
  /\ gs_sections' = extract_sections(gs_github.readme)
  /\ gs_title' = find_title_info(extract_sections(gs_github.readme), gs_skill_entry.name)
  /\ gs_pc' = "assemble"
  /\ UNCHANGED <<gs_github, gs_skill_entry, gs_record>>
  /\ UNCHANGED <<vars_sections, vars_find, vars_example,
                 vars_credits, vars_examples, vars_main>>

\* lines 378-380: GitHub raises
gs_raise ==
  /\ gs_pc = "fetch"
  /\ gs_github.status = "GithubException"
  /\ gs_pc' = "raised"
  /\ UNCHANGED <<gs_github, gs_skill_entry, gs_repo_url, gs_sections, gs_title,
                 gs_record>>
  /\ UNCHANGED <<vars_sections, vars_find, vars_example,
                 vars_credits, vars_examples, vars_main>>

\* lines 388-415
gs_assemble ==
  /\ gs_pc = "assemble"
  /\ gs_record' = [repo |-> gs_repo_url,
                   tree |-> gs_skill_entry.sha,
                   name |-> gs_skill_entry.name,
                   github_username |-> gs_skill_entry.author,
                   title |-> gs_title[1],
                   short_desc |-> gs_short_desc(gs_title[2]),
                   description |-> gs_description(gs_sections),
                   examples |-> gs_examples(gs_sections),
                   credits |-> gs_credits(gs_sections, gs_skill_entry.author),
                   categories |-> gs_categories(gs_sections),
                   platforms |-> gs_platforms(gs_sections),
                   tags |-> gs_tags(gs_sections)]
  /\ gs_pc' = "icon"
  /\ UNCHANGED <<gs_github, gs_skill_entry, gs_repo_url, gs_sections, gs_title>>
  /\ UNCHANGED <<vars_sections, vars_find, vars_example,
                 vars_credits, vars_examples, vars_main>>

\* lines 417-424; with_icon tells whether an icon field is added
gs_finish(with_icon) ==
  /\ gs_pc = "icon"
  /\ LET icon == find_icon(gs_sections, gs_repo_url, gs_skill_entry.sha)
     IN  /\ (truthy(icon[1]) \/ truthy(icon[2])) = with_icon
         /\ gs_record' = gs_icon(gs_record, icon)
  /\ gs_pc' = "done"
  /\ UNCHANGED <<gs_github, gs_skill_entry, gs_repo_url, gs_sections, gs_title>>
  /\ UNCHANGED <<vars_sections, vars_find, vars_example,
                 vars_credits, vars_examples, vars_main>>

\* lines 419-422
gs_set_icon == gs_finish(TRUE)

\* line 424 alone
gs_no_icon == gs_finish(FALSE)

NextSummary == gs_fetch \/ gs_raise \/ gs_assemble \/ gs_set_icon \/ gs_no_icon

InitSummary ==
  /\ idle_but("summary")
  /\ gs_github \in GithubAnswers(SummaryReadmes)
  /\ gs_skill_entry = SkillEntry
  /\ gs_repo_url = <<>>
  /\ gs_sections = <<>>
  /\ gs_title = <<>>
  /\ gs_record = None
  /\ gs_pc = "fetch"

SpecSummary == InitSummary /\ [][NextSummary]_vars

(***************************************************************************)
(* Properties of generate_summary                                          *)
(***************************************************************************)
\* C7: a record made of a README that has a heading with an image tag has
\* exactly one of the fields icon and icon_img, never both
C7_ExactlyOneIconField ==
  (gs_pc = "done" /\ icon_section(gs_sections) # None) =>
    ("icon" \in DOMAIN gs_record) # ("icon_img" \in DOMAIN gs_record)

\* the text of the About section, else of the Description section, else ''
description_source ==
  py_or(py_or(find_section(Literals.About, gs_sections, DefaultMinConf),
              find_section(Literals.Description, gs_sections, DefaultMinConf)), <<>>)

\* C8 as stated: the description of a record is empty or ends with '.'
C8_DescriptionEndsWithFullStop ==
  gs_pc = "done" =>
    \/ gs_record.description = <<>>
    \/ gs_record.description[Len(gs_record.description)] = "."

\* C8 amended: the description of a record is empty or ends with a character
\* that is not alphanumeric; it ends with an appended '.' when the section
\* text ends with an alphanumeric character, and else as the section text does
C8_DescriptionEndsWithoutAlnum ==
  gs_pc = "done" =>
    LET text == description_source
        d == gs_record.description
    IN  /\ (d = <<>>) = (text = <<>>)
        /\ d # <<>> => ~ isalnum(d[Len(d)])
        /\ (text # <<>> /\ isalnum(text[Len(text)])) =>
             (Len(d) = Len(text) + 1 /\ d[Len(d)] = ".")
        /\ (text # <<>> /\ ~ isalnum(text[Len(text)])) =>
             (Len(d) = Len(text) /\ d[Len(d)] = text[Len(text)])

\* C8's case: a record whose About or Description text ends with a character
\* that is neither alphanumeric nor a full stop has been assembled
C8_Witness ==
  /\ gs_pc = "done"
  /\ description_source # <<>>
  /\ gs_record.description[Len(gs_record.description)] # "."

(***************************************************************************)
(* main: the loop over the listed skills                                   *)
(***************************************************************************)
MaxSkills == 2

SkillNames == {<<"s", "k", "i", "l", "l", "-", "x">>,
               <<"s", "k", "i", "l", "l", "-", "y">>}

\* the READMEs of the listed skills
MainReadmes == {<<"#", " ", "T", "\n", "#", "#", " ", "A", "b", "o", "u", "t", "\n", "h", "i">>,
                <<"#", " ", "<", "i", "m", "g", " ", "s", "r", "c", "=", "'", "i", ".", "s", "v", "g", "'", "/", ">", " ", "U">>}

\* the entries MycroftSkillsManager lists: some have no url
SkillEntries ==
  [name : SkillNames, author : {SkillEntry.author}, sha : {SkillEntry.sha},
   url : {None, SkillEntry.url}]

\* what the GitHub calls of generate_summary do for a listed skill: they
\* answer, raise GithubException, or raise an exception of another class
MainAnswers ==
  GithubAnswers(MainReadmes)
  \cup {[status |-> "Exception", html_url |-> <<>>, readme |-> <<>>]}

\* a listed skill with GitHub's answer for it; nothing is asked of GitHub for
\* a skill that has no url
ListedSkills ==
  {l \in [entry : SkillEntries, answer : MainAnswers] :
     ~ truthy(l.entry.url) => l.answer.status = "GithubException"}

\* an except clause that takes no exception
caught_nothing(status) == FALSE

\* line 446: the except clause takes GithubException and nothing else
caught(status) == status = "GithubException"

\* lines 441-442: a skill without url is passed over
main_skip ==
  /\ main_pc = "loop"
  /\ skill_no < Len(skills)
  /\ ~ truthy(skills[skill_no + 1].url)
  /\ skill_no' = skill_no + 1
  /\ UNCHANGED <<skills, github, summaries, output, main_pc>>
  /\ UNCHANGED <<vars_sections, vars_find, vars_example,
                 vars_credits, vars_examples, vars_summary>>

\* lines 444-445 and 449: the summary is generated and stored under the name
main_generate ==
  /\ main_pc = "loop"
  /\ skill_no < Len(skills)
  /\ truthy(skills[skill_no + 1].url)
  /\ github[skill_no + 1].status = "ok"
  /\ summaries' = set_item(summaries, skills[skill_no + 1].name,
                           gs_entry(github[skill_no + 1].html_url,
                                    github[skill_no + 1].readme,
                                    skills[skill_no + 1]))
  /\ skill_no' = skill_no + 1
  /\ UNCHANGED <<skills, github, output, main_pc>>
  /\ UNCHANGED <<vars_sections, vars_find, vars_example,
                 vars_credits, vars_examples, vars_summary>>

\* lines 446-448: a caught exception is printed and the loop goes on
main_failed ==
  /\ main_pc = "loop"
  /\ skill_no < Len(skills)
  /\ truthy(skills[skill_no + 1].url)
  /\ github[skill_no + 1].status # "ok"
  /\ caught(github[skill_no + 1].status)
  /\ skill_no' = skill_no + 1
  /\ UNCHANGED <<skills, github, summaries, output, main_pc>>
  /\ UNCHANGED <<vars_sections, vars_find, vars_example,
                 vars_credits, vars_examples, vars_summary>>

\* line 445 under the try of 444-446: an exception the clause does not take
\* leaves main
main_raise ==
  /\ main_pc = "loop"
  /\ skill_no < Len(skills)
  /\ truthy(skills[skill_no + 1].url)
  /\ github[skill_no + 1].status # "ok"
  /\ ~ caught(github[skill_no + 1].status)
  /\ main_pc' = "raised"
  /\ UNCHANGED <<skills, github, skill_no, summaries, output>>
  /\ UNCHANGED <<vars_sections, vars_find, vars_example,
                 vars_credits, vars_examples, vars_summary>>

\* lines 451-455: after the loop the summaries are handed to json.dump(s)
main_output ==
  /\ main_pc = "loop"
  /\ skill_no = Len(skills)
  /\ output' = summaries
  /\ main_pc' = "done"
  /\ UNCHANGED <<skills, github, skill_no, summaries>>
  /\ UNCHANGED <<vars_sections, vars_find, vars_example,
                 vars_credits, vars_examples, vars_summary>>

NextMain == main_skip \/ main_generate \/ main_failed \/ main_raise \/ main_output

\* lines 433-439: an empty dict of summaries and the list of skills
InitMain ==
  /\ idle_but("main")
  /\ \E l \in SeqUpTo(ListedSkills, MaxSkills) :
       /\ skills = [i \in DOMAIN l |-> l[i].entry]
       /\ github = [i \in DOMAIN l |-> l[i].answer]
  /\ skill_no = 0
  /\ summaries = <<>>
  /\ output = None
  /\ main_pc = "loop"

SpecMain == InitMain /\ [][NextMain]_vars

(***************************************************************************)
(* Properties of main                                                      *)
(***************************************************************************)
\* the first n listed skills that have a url and whose summary was generated
generated(n) ==
  {i \in 1..n : truthy(skills[i].url) /\ github[i].status = "ok"}

\* the summaries are those of the first n listed skills: one key for each
\* name in generated(n), holding the summary of the last skill of that name
summaries_of(n) ==
  /\ Range(keys(summaries)) = {skills[i].name : i \in generated(n)}
  /\ \A i, j \in DOMAIN summaries : summaries[i].key = summaries[j].key => i = j
  /\ \A i \in generated(n) :
       (\A j \in generated(n) : j > i => skills[j].name # skills[i].name) =>
         get_item(summaries, skills[i].name)
           = gs_entry(github[i].html_url, github[i].readme, skills[i])

=============================================================================
